---------------------------- MODULE Spec2Model ----------------------------
(***************************************************************************)
(* A model of src/extract-dataset.py: the per-stay loops of impute_holes   *)
(* and add_aki_labels, the baseline table get_baseline, has_aki, the       *)
(* percentile clipping of transform_outliers and the stage driver          *)
(* extract_dataset.                                                        *)
(*                                                                         *)
(* A table (pandas DataFrame) is a sequence of rows; a row is a record     *)
(* whose field idx is the row's index label (the RangeIndex read_csv       *)
(* gives), so that df.drop(labels) and boolean masks are modelled as the   *)
(* code uses them.  A missing value is NaN.  Creatinine is held in         *)
(* hundredths of mg/dL and the comparisons are exact; the values the       *)
(* labeler is run on (LabelVals) are values at which the float             *)
(* comparisons of the code give the same verdicts.  The feature catalogue  *)
(* is cut down to creatinine and one other feature (glucose): the code     *)
(* treats every feature other than creatinine alike.  Infinite values are  *)
(* not modelled: the tables hold measurements and NaN.                     *)
(***************************************************************************)
EXTENDS Integers, Sequences, FiniteSets, TLC

VARIABLES
    pc,         \* "start", the running stage, then the stage's saved state
    df,         \* the DataFrame the running stage holds
    input,      \* the table the stage read (read_csv), kept for the claims
    prev,       \* the table before the latest transform_outliers pass
    stay_ids,   \* pd.unique(df['stay_id']), computed before the loop
    k,          \* position of the per-stay loop in stay_ids; pass counter
    consulted,  \* the <<black, age, gender>> get_baseline was called with
    args,       \* arguments of a single get_baseline call
    result,     \* what that call returned
    files,      \* the csv files of extract_dataset: name -> content, <<>> if absent
    ran         \* the stages extract_dataset has executed, in order

vars == <<pc, df, input, prev, stay_ids, k, consulted, args, result, files, ran>>

-----------------------------------------------------------------------------
(* Values *)

NaN == -1

IsFinite(x) == x # NaN

Features == <<"creatinine", "glucose">>

SetMin(S) == CHOOSE x \in S : \A y \in S : x <= y
SetMax(S) == CHOOSE x \in S : \A y \in S : x >= y

-----------------------------------------------------------------------------
(* DataFrame helpers *)

\* df[df['stay_id'] == stay_id]
StayRows(d, sid) == SelectSeq(d, LAMBDA r : r.stay_id = sid)

\* df[~stay_id_mask]
DropStay(d, sid) == SelectSeq(d, LAMBDA r : r.stay_id # sid)

\* df.drop(labels)
DropLabels(d, labels) == SelectSeq(d, LAMBDA r : r.idx \notin labels)

\* df[...][column].values
Column(rows, f) == [i \in 1..Len(rows) |-> rows[i][f]]

\* pd.unique: the distinct stay ids in order of first appearance
RECURSIVE UniqueFrom(_, _)
UniqueFrom(d, seen) ==
    IF d = <<>> THEN <<>>
    ELSE IF Head(d).stay_id \in seen THEN UniqueFrom(Tail(d), seen)
    ELSE <<Head(d).stay_id>> \o UniqueFrom(Tail(d), seen \cup {Head(d).stay_id})

Unique(d) == UniqueFrom(d, {})

StayIdsOf(d) == {d[i].stay_id : i \in 1..Len(d)}

-----------------------------------------------------------------------------
(* impute_holes *)

\* a scan that starts at the first element instead of the third
get_nan_index_from_start(series) ==
    LET bad == {i \in 0..(Len(series) - 1) : ~IsFinite(series[i + 1])}
    IN  IF bad = {} THEN -1 ELSE SetMin(bad)

\* get_nan_index: 0-based index of the first non-finite entry from the third
\* element on, -1 when there is none
get_nan_index(series) ==
    LET bad == {i \in 2..(Len(series) - 1) : ~IsFinite(series[i + 1])}
    IN  IF bad = {} THEN -1 ELSE SetMin(bad)

\* Series.ffill: a missing entry takes the nearest earlier non-missing value
ffill(col) ==
    [i \in 1..Len(col) |->
        IF IsFinite(col[i]) THEN col[i]
        ELSE LET before == {j \in 1..(i - 1) : IsFinite(col[j])}
             IN  IF before = {} THEN NaN ELSE col[SetMax(before)]]

\* Series.bfill: a missing entry takes the nearest later non-missing value
bfill(col) ==
    [i \in 1..Len(col) |->
        IF IsFinite(col[i]) THEN col[i]
        ELSE LET after == {j \in (i + 1)..Len(col) : IsFinite(col[j])}
             IN  IF after = {} THEN NaN ELSE col[SetMin(after)]]

\* np.isfinite(values).any()
AnyFinite(col) == \E i \in 1..Len(col) : IsFinite(col[i])

\* a fill that stops after ffill()
FilledRows_ffill_only(rows) ==
    LET crea == ffill(Column(rows, "creatinine"))
        gluc == ffill(Column(rows, "glucose"))
    IN  [i \in 1..Len(rows) |->
            [rows[i] EXCEPT !.creatinine = crea[i], !.glucose = gluc[i]]]

\* a fill that runs bfill() before ffill()
FilledRows_bfill_first(rows) ==
    LET crea == ffill(bfill(Column(rows, "creatinine")))
        gluc == ffill(bfill(Column(rows, "glucose")))
    IN  [i \in 1..Len(rows) |->
            [rows[i] EXCEPT !.creatinine = crea[i], !.glucose = gluc[i]]]

\* df[stay_id_mask].ffill().bfill(), written back through the mask
FilledRows(rows) ==
    LET crea == bfill(ffill(Column(rows, "creatinine")))
        gluc == bfill(ffill(Column(rows, "glucose")))
    IN  [i \in 1..Len(rows) |->
            [rows[i] EXCEPT !.creatinine = crea[i], !.glucose = gluc[i]]]

\* a fill written back without the mask: df = df.ffill().bfill()
fill_nas_or_drop_unmasked(d, sid, features) ==
    LET rows == StayRows(d, sid)
    IN  IF \E n \in 1..Len(features) : ~AnyFinite(Column(rows, features[n]))
        THEN DropStay(d, sid)
        ELSE FilledRows(d)

fill_nas_or_drop(d, sid, features) ==
    LET rows == StayRows(d, sid)
    IN  IF \E n \in 1..Len(features) : ~AnyFinite(Column(rows, features[n]))
        THEN DropStay(d, sid)
        ELSE LET filled == FilledRows(rows)
                 pos(i) == Cardinality({j \in 1..i : d[j].stay_id = sid})
             IN  [i \in 1..Len(d) |->
                    IF d[i].stay_id = sid THEN filled[pos(i)] ELSE d[i]]

\* the loop body without the drop of a stay whose creatinine is missing on
\* the third day: such a stay is cut at the gap like any other
ImputeBody_no_third_day_rule(d, sid) ==
    LET rows == StayRows(d, sid)
        crea == Column(rows, "creatinine")
    IN  IF Len(rows) < 3 THEN DropStay(d, sid)
        ELSE IF ~AnyFinite(SubSeq(crea, 3, Len(crea))) THEN DropStay(d, sid)
        ELSE LET nan_index == get_nan_index(crea)
                 nan_indices == {rows[j].idx : j \in (nan_index + 1)..Len(rows)}
                 d2 == IF nan_index # -1 THEN DropLabels(d, nan_indices) ELSE d
             IN  fill_nas_or_drop(d2, sid, Features)

\* one iteration of the loop over stay_ids
ImputeBody(d, sid) ==
    LET rows == StayRows(d, sid)
        crea == Column(rows, "creatinine")
    IN  IF Len(rows) < 3 THEN DropStay(d, sid)
        ELSE IF ~AnyFinite(SubSeq(crea, 3, Len(crea))) THEN DropStay(d, sid)
        ELSE LET nan_index == get_nan_index(crea)
             IN  IF nan_index = 2 THEN DropStay(d, sid)
                 ELSE LET nan_indices ==
                              {rows[j].idx : j \in (nan_index + 1)..Len(rows)}
                          d2 == IF nan_index # -1
                                THEN DropLabels(d, nan_indices) ELSE d
                      IN  fill_nas_or_drop(d2, sid, Features)

ImputeStay ==
    /\ pc = "impute"
    /\ k <= Len(stay_ids)
    /\ df' = ImputeBody(df, stay_ids[k])
    /\ k' = k + 1
    /\ UNCHANGED <<pc, input, prev, stay_ids, consulted, args, result,
                 files, ran>>

\* df.to_csv(output_path)
ImputeSave ==
    /\ pc = "impute"
    /\ k > Len(stay_ids)
    /\ pc' = "imputed"
    /\ UNCHANGED <<df, input, prev, stay_ids, k, consulted, args, result,
                 files, ran>>

(* Input tables of impute_holes *)

ImputeMaxLen == 5
ImputeMaxPair == 4

CreaVals == {NaN, 1, 2}
GlucVals == {NaN, 1, 2}

ImputeCells == [creatinine : CreaVals, glucose : GlucVals]

ImputeStayRows(cells, sid, off) ==
    [i \in 1..Len(cells) |->
        [idx |-> off + i - 1, stay_id |-> sid,
         creatinine |-> cells[i].creatinine, glucose |-> cells[i].glucose]]

\* pd.read_csv(input_path) and pd.unique(df['stay_id'])
ImputeRead ==
    /\ pc = "start"
    /\ \/ \E n \in 1..ImputeMaxLen : \E c \in [1..n -> ImputeCells] :
              df' = ImputeStayRows(c, 1, 0)
       \/ \E t \in 2..ImputeMaxPair : \E na \in 1..(t - 1) :
              \E a \in [1..na -> ImputeCells], b \in [1..(t - na) -> ImputeCells] :
                 df' = ImputeStayRows(a, 1, 0) \o ImputeStayRows(b, 2, na)
    /\ input' = df'
    /\ stay_ids' = Unique(df')
    /\ pc' = "impute"
    /\ UNCHANGED <<prev, k, consulted, args, result,
                 files, ran>>

Init ==
    /\ pc = "start"
    /\ df = <<>>
    /\ input = <<>>
    /\ prev = <<>>
    /\ stay_ids = <<>>
    /\ k = 1
    /\ consulted = {}
    /\ args = <<>>
    /\ result = NaN
    /\ files = <<>>
    /\ ran = <<>>

NextImpute == ImputeRead \/ ImputeStay \/ ImputeSave

SpecImpute == Init /\ [][NextImpute]_vars

-----------------------------------------------------------------------------
(* get_baseline and has_aki.  Creatinine and the baseline are in hundredths *)
(* of mg/dL.  An optional argument is <<>> (None) or <<v>>.                 *)

\* a table whose 30-39 row is also used for the ages 25 to 29
get_baseline_wide_thirties(black, age, gender) ==
    IF 20 <= age /\ age <= 24
    THEN IF black = 1 THEN (IF gender = 1 THEN 150 ELSE 120)
         ELSE (IF gender = 1 THEN 130 ELSE 100)
    ELSE IF 25 <= age /\ age <= 39
    THEN IF black = 1 THEN (IF gender = 1 THEN 140 ELSE 110)
         ELSE (IF gender = 1 THEN 120 ELSE 90)
    ELSE IF 40 <= age /\ age <= 54
    THEN IF black = 1 THEN (IF gender = 1 THEN 130 ELSE 100)
         ELSE (IF gender = 1 THEN 110 ELSE 90)
    ELSE IF black = 1 THEN (IF gender = 1 THEN 120 ELSE 90)
         ELSE (IF gender = 1 THEN 100 ELSE 80)

get_baseline(black, age, gender) ==
    IF 20 <= age /\ age <= 24
    THEN IF black = 1 THEN (IF gender = 1 THEN 150 ELSE 120)
         ELSE (IF gender = 1 THEN 130 ELSE 100)
    ELSE IF 25 <= age /\ age <= 29
    THEN IF black = 1 THEN (IF gender = 1 THEN 150 ELSE 110)
         ELSE (IF gender = 1 THEN 120 ELSE 100)
    ELSE IF 30 <= age /\ age <= 39
    THEN IF black = 1 THEN (IF gender = 1 THEN 140 ELSE 110)
         ELSE (IF gender = 1 THEN 120 ELSE 90)
    ELSE IF 40 <= age /\ age <= 54
    THEN IF black = 1 THEN (IF gender = 1 THEN 130 ELSE 100)
         ELSE (IF gender = 1 THEN 110 ELSE 90)
    ELSE IF black = 1 THEN (IF gender = 1 THEN 120 ELSE 90)
         ELSE (IF gender = 1 THEN 100 ELSE 80)

None == <<>>

\* has_aki with strict comparisons
has_aki_strict(diff, scr, black, age, gender) ==
    IF diff # None THEN [raised |-> FALSE, value |-> diff[1] > 30]
    ELSE IF scr # None
    THEN IF black = None \/ age = None \/ gender = None
         THEN [raised |-> TRUE, value |-> FALSE]
         ELSE [raised |-> FALSE,
               value |-> 2 * scr[1] > 3 * get_baseline(black[1], age[1], gender[1])]
    ELSE [raised |-> TRUE, value |-> FALSE]

\* has_aki whose last line returns False instead of raising
has_aki_neither_false(diff, scr, black, age, gender) ==
    IF diff # None THEN [raised |-> FALSE, value |-> diff[1] >= 30]
    ELSE IF scr # None
    THEN IF black = None \/ age = None \/ gender = None
         THEN [raised |-> TRUE, value |-> FALSE]
         ELSE [raised |-> FALSE,
               value |-> 2 * scr[1] >= 3 * get_baseline(black[1], age[1], gender[1])]
    ELSE [raised |-> FALSE, value |-> FALSE]

\* has_aki: raised is TRUE when the call ends in an AssertionError; scr >=
\* 1.5 * baseline is 2 * scr >= 3 * baseline
has_aki(diff, scr, black, age, gender) ==
    IF diff # None THEN [raised |-> FALSE, value |-> diff[1] >= 30]
    ELSE IF scr # None
    THEN IF black = None \/ age = None \/ gender = None
         THEN [raised |-> TRUE, value |-> FALSE]
         ELSE [raised |-> FALSE,
               value |-> 2 * scr[1] >= 3 * get_baseline(black[1], age[1], gender[1])]
    ELSE [raised |-> TRUE, value |-> FALSE]

-----------------------------------------------------------------------------
(* add_aki_labels *)

\* scr[1:] - scr[:-1]
Diffs(scr) == [i \in 1..(Len(scr) - 1) |-> scr[i + 1] - scr[i]]

\* an age test that lets the age 19 through
TooYoung_under_19(age) == age < 19

\* if age < 20
TooYoung(age) == age < 20

\* a 48-hour test that leaves out the second day's level
PreWindowAki_without_day1(scr, diffs, black, age, gender) ==
    \/ has_aki(<<diffs[1]>>, None, None, None, None).value
    \/ has_aki(None, <<scr[1]>>, <<black>>, <<age>>, <<gender>>).value

\* the three has_aki calls deciding the drop for AKI in the first 48 hours
PreWindowAki(scr, diffs, black, age, gender) ==
    \/ has_aki(<<diffs[1]>>, None, None, None, None).value
    \/ has_aki(None, <<scr[1]>>, <<black>>, <<age>>, <<gender>>).value
    \/ has_aki(None, <<scr[2]>>, <<black>>, <<age>>, <<gender>>).value

\* aki1, aki2 and aki: the label list of the days from the second to the
\* second-to-last
NextDayAki(scr, diffs, black, age, gender) ==
    [j \in 1..(Len(scr) - 2) |->
        IF \/ has_aki(<<diffs[j + 1]>>, None, None, None, None).value
           \/ has_aki(None, <<scr[j + 2]>>, <<black>>, <<age>>, <<gender>>).value
        THEN 1 ELSE 0]

\* df.loc[stay_id_mask, 'aki'] = aki_labels
AssignAki(d, sid, aki_labels) ==
    [i \in 1..Len(d) |->
        IF d[i].stay_id = sid
        THEN [d[i] EXCEPT !.aki =
                 aki_labels[Cardinality({j \in 1..i : d[j].stay_id = sid})]]
        ELSE d[i]]

\* a cap that retains 9 days
TruncateStay_nine(d, sid) ==
    LET rows == StayRows(d, sid)
    IN  DropLabels(d, {rows[j].idx : j \in 10..Len(rows)})

\* truncate icu stays (retain first 8 days)
TruncateStay(d, sid) ==
    LET rows == StayRows(d, sid)
        to_truncate_indices == {rows[j].idx : j \in 9..Len(rows)}
    IN  IF to_truncate_indices # {} THEN DropLabels(d, to_truncate_indices) ELSE d

\* one iteration of the loop over stay_ids
LabelBody(d, sid) ==
    LET rows == StayRows(d, sid)
        black == rows[1].black
        age == rows[1].age
        gender == rows[1].gender
        scr == Column(rows, "creatinine")
        diffs == Diffs(scr)
    IN  IF TooYoung(age) THEN DropStay(d, sid)
        ELSE IF PreWindowAki(scr, diffs, black, age, gender) THEN DropStay(d, sid)
        ELSE LET aki == NextDayAki(scr, diffs, black, age, gender)
                 last_day_index == rows[Len(rows)].idx
                 d1 == DropLabels(d, {last_day_index})
                 aki_labels == <<0>> \o aki
             IN  TruncateStay(AssignAki(d1, sid, aki_labels), sid)

\* the arguments get_baseline is called with during that iteration: none
\* when the stay is dropped for its age, and none when the first difference
\* already decides the 48-hour test
LabelCalls(d, sid) ==
    LET rows == StayRows(d, sid)
        scr == Column(rows, "creatinine")
    IN  IF TooYoung(rows[1].age) THEN {}
        ELSE IF has_aki(<<Diffs(scr)[1]>>, None, None, None, None).value THEN {}
        ELSE {[black |-> rows[1].black, age |-> rows[1].age,
               gender |-> rows[1].gender]}

LabelStay ==
    /\ pc = "label"
    /\ k <= Len(stay_ids)
    /\ df' = LabelBody(df, stay_ids[k])
    /\ consulted' = consulted \cup LabelCalls(df, stay_ids[k])
    /\ k' = k + 1
    /\ UNCHANGED <<pc, input, prev, stay_ids, args, result,
                 files, ran>>

\* df.to_csv(output_path)
LabelSave ==
    /\ pc = "label"
    /\ k > Len(stay_ids)
    /\ pc' = "labeled"
    /\ UNCHANGED <<df, input, prev, stay_ids, k, consulted, args, result,
                 files, ran>>

(* Input tables of add_aki_labels: stays of at least 2 records without     *)
(* missing creatinine, as impute_holes leaves them                          *)

LabelMaxLen == 10
LabelMaxPair == 6

LabelVals == {100, 130, 150}

Demographics ==
    {[black |-> 0, age |-> 19, gender |-> 1],
     [black |-> 0, age |-> 20, gender |-> 0],
     [black |-> 0, age |-> 45, gender |-> 1]}

LabelStayRows(scr, who, sid, off) ==
    [i \in 1..Len(scr) |->
        [idx |-> off + i - 1, stay_id |-> sid, creatinine |-> scr[i],
         black |-> who.black, age |-> who.age, gender |-> who.gender,
         aki |-> NaN]]

\* pd.read_csv(input_path) and pd.unique(df['stay_id'])
LabelRead ==
    /\ pc = "start"
    /\ \/ \E n \in 2..LabelMaxLen : \E c \in [1..n -> LabelVals] :
              \E who \in Demographics : df' = LabelStayRows(c, who, 1, 0)
       \/ \E t \in 4..LabelMaxPair : \E na \in 2..(t - 2) :
              \E a \in [1..na -> LabelVals], b \in [1..(t - na) -> LabelVals] :
                 \E whoa \in Demographics, whob \in Demographics :
                    df' = LabelStayRows(a, whoa, 1, 0) \o LabelStayRows(b, whob, 2, na)
    /\ input' = df'
    /\ stay_ids' = Unique(df')
    /\ pc' = "label"
    /\ UNCHANGED <<prev, k, consulted, args, result,
                 files, ran>>

NextLabel == LabelRead \/ LabelStay \/ LabelSave

SpecLabel == Init /\ [][NextLabel]_vars

-----------------------------------------------------------------------------
(* impute_holes and add_aki_labels on tables of two stays.  In the tables   *)
(* of impute_holes every value of stay 1 is 1 and every value of stay 2 is  *)
(* 2, so that a value carried from one stay to the other shows.             *)

IndepMaxRows == 6

OwnCells(v) == [creatinine : {NaN, v}, glucose : {NaN, v}]

\* pd.read_csv(input_path) and pd.unique(df['stay_id']) in impute_holes
ImputeReadTwo ==
    /\ pc = "start"
    /\ \E t \in 2..IndepMaxRows : \E na \in 1..(t - 1) :
          \E a \in [1..na -> OwnCells(1)], b \in [1..(t - na) -> OwnCells(2)] :
              df' = ImputeStayRows(a, 1, 0) \o ImputeStayRows(b, 2, na)
    /\ input' = df'
    /\ stay_ids' = Unique(df')
    /\ pc' = "impute"
    /\ UNCHANGED <<prev, k, consulted, args, result,
                 files, ran>>

\* pd.read_csv(input_path) and pd.unique(df['stay_id']) in add_aki_labels
LabelReadTwo ==
    /\ pc = "start"
    /\ \E t \in 4..LabelMaxPair : \E na \in 2..(t - 2) :
          \E a \in [1..na -> LabelVals], b \in [1..(t - na) -> LabelVals] :
              \E whoa \in Demographics, whob \in Demographics :
                  df' = LabelStayRows(a, whoa, 1, 0) \o LabelStayRows(b, whob, 2, na)
    /\ input' = df'
    /\ stay_ids' = Unique(df')
    /\ pc' = "label"
    /\ UNCHANGED <<prev, k, consulted, args, result,
                 files, ran>>

NextIndep ==
    \/ ImputeReadTwo \/ ImputeStay \/ ImputeSave
    \/ LabelReadTwo \/ LabelStay \/ LabelSave

SpecIndep == Init /\ [][NextIndep]_vars

-----------------------------------------------------------------------------
(* A single call of get_baseline *)

MaxAge == 60

BaselineCall ==
    /\ pc = "start"
    /\ \E black \in {0, 1}, gender \in {0, 1}, age \in 0..MaxAge :
          /\ args' = [black |-> black, age |-> age, gender |-> gender]
          /\ result' = get_baseline(black, age, gender)
    /\ pc' = "returned"
    /\ UNCHANGED <<df, input, prev, stay_ids, k, consulted,
                 files, ran>>

NextBaseline == BaselineCall

SpecBaseline == Init /\ [][NextBaseline]_vars

-----------------------------------------------------------------------------
(* A single call of has_aki, each argument given or left at None *)

Optional(S) == {None} \cup {<<v>> : v \in S}

HasAkiCall ==
    /\ pc = "start"
    /\ \E diff \in Optional({20, 30, 40}), scr \in Optional(LabelVals),
          black \in Optional({0, 1}), age \in Optional({20, 45, 60}),
          gender \in Optional({0, 1}) :
          /\ args' = [diff |-> diff, scr |-> scr, black |-> black,
                      age |-> age, gender |-> gender]
          /\ result' = has_aki(diff, scr, black, age, gender)
    /\ pc' = "has_aki_returned"
    /\ UNCHANGED <<df, input, prev, stay_ids, k, consulted,
                 files, ran>>

NextHasAki == HasAkiCall

SpecHasAki == Init /\ [][NextHasAki]_vars

-----------------------------------------------------------------------------
(* transform_outliers.  The values of ClipVals are multiples of 100^3, so   *)
(* that the interpolated percentiles of three passes in a row are exact.    *)
(* A pass is a whole call: it reads the table the pass before it saved.     *)

\* the j-th smallest entry of a column, j from 1
KthSmallest(col, j) ==
    CHOOSE v \in {col[i] : i \in 1..Len(col)} :
        /\ Cardinality({i \in 1..Len(col) : col[i] < v}) < j
        /\ j <= Cardinality({i \in 1..Len(col) : col[i] <= v})

\* Series.quantile(q / 100), linear interpolation: with h = (n - 1) * q / 100
\* the result is s[floor(h)] + (h - floor(h)) * (s[floor(h) + 1] - s[floor(h)])
\* on the sorted column s
Quantile(col, q) ==
    LET h100 == (Len(col) - 1) * q
        lo == h100 \div 100
        frac == h100 % 100
        slo == KthSmallest(col, lo + 1)
        shi == IF frac = 0 THEN slo ELSE KthSmallest(col, lo + 2)
    IN  slo + (frac * (shi - slo)) \div 100

\* a pass that rescales to the lower bound only
ClipColumn_lower_only(col) ==
    LET lower_bound == Quantile(col, 1)
    IN  [i \in 1..Len(col) |->
            IF col[i] < lower_bound THEN lower_bound ELSE col[i]]

\* the body of the loop over features, for one column: both masks are taken
\* before either assignment
ClipColumn(col) ==
    LET upper_bound == Quantile(col, 99)
        lower_bound == Quantile(col, 1)
        upper_mask == {i \in 1..Len(col) : col[i] > upper_bound}
        lower_mask == {i \in 1..Len(col) : col[i] < lower_bound}
        upper == [i \in 1..Len(col) |->
                     IF i \in upper_mask THEN upper_bound ELSE col[i]]
    IN  [i \in 1..Len(col) |->
            IF i \in lower_mask THEN lower_bound ELSE upper[i]]

transform_outliers(d) ==
    LET crea == ClipColumn(Column(d, "creatinine"))
        gluc == ClipColumn(Column(d, "glucose"))
    IN  [i \in 1..Len(d) |->
            [d[i] EXCEPT !.creatinine = crea[i], !.glucose = gluc[i]]]

ClipMaxRows == 4
ClipPasses == 2

ClipVals == {0, 1000000, 5000000}

\* the table the first pass reads
ClipRead ==
    /\ pc = "start"
    /\ \E n \in 1..ClipMaxRows :
          \E c \in [1..n -> ClipVals], g \in [1..n -> ClipVals] :
              df' = [i \in 1..n |->
                        [idx |-> i - 1, stay_id |-> 1,
                         creatinine |-> c[i], glucose |-> g[i]]]
    /\ input' = df'
    /\ prev' = df'
    /\ pc' = "clip"
    /\ UNCHANGED <<stay_ids, k, consulted, args, result,
                 files, ran>>

\* one run of transform_outliers on the table the run before it saved
ClipPass ==
    /\ pc = "clip"
    /\ k <= ClipPasses
    /\ prev' = df
    /\ df' = transform_outliers(df)
    /\ k' = k + 1
    /\ UNCHANGED <<pc, input, stay_ids, consulted, args, result,
                 files, ran>>

NextClip == ClipRead \/ ClipPass

SpecClip == Init /\ [][NextClip]_vars

-----------------------------------------------------------------------------
(* extract_dataset.  A file's content is the list of what it was derived    *)
(* from: the raw events file holds <<"filtered_events">>, a file a stage    *)
(* writes holds the content the stage read followed by the stage's name, a  *)
(* file left by an earlier run holds <<"stale">>, and <<>> is no file.      *)

Stages ==
    <<"partition_rows", "impute_holes", "add_patient_info", "add_aki_labels",
      "transform_outliers">>

\* the opath of the stages, in order
Outputs ==
    <<"events_partitioned.csv", "events_imputed.csv",
      "events_with_demographics.csv", "events_with_labels.csv",
      "events_complete.csv">>

RawEvents == "filtered_events.csv"

\* ipath: the raw events for the first stage, then ipath = opath
InputOf(n) == IF n = 1 THEN RawEvents ELSE Outputs[n - 1]

Exists(fs, name) == fs[name] # <<>>

\* a test that looks at the output file only
ShouldRun_ignores_redo(redo, fs, n) == ~Exists(fs, Outputs[n])

\* if redo or not opath.exists()
ShouldRun(redo, fs, n) == redo \/ ~Exists(fs, Outputs[n])

\* the call: redo, and the files that are there when it is made
ExtractCall ==
    /\ pc = "start"
    /\ \E redo \in BOOLEAN : args' = [redo |-> redo]
    /\ \E raw \in {<<>>, <<"filtered_events">>} :
          \E old \in [{Outputs[n] : n \in 1..Len(Outputs)} -> {<<>>, <<"stale">>}] :
              files' = [name \in {RawEvents} \cup DOMAIN old |->
                           IF name = RawEvents THEN raw ELSE old[name]]
    /\ pc' = "extract"
    /\ UNCHANGED <<df, input, prev, stay_ids, k, consulted, result, ran>>

\* the stage whose turn it is runs: it reads ipath and writes opath
ExtractRun ==
    /\ pc = "extract"
    /\ k <= Len(Stages)
    /\ ShouldRun(args.redo, files, k)
    /\ Exists(files, InputOf(k))
    /\ files' = [files EXCEPT ![Outputs[k]] = Append(files[InputOf(k)], Stages[k])]
    /\ ran' = Append(ran, k)
    /\ k' = k + 1
    /\ UNCHANGED <<pc, df, input, prev, stay_ids, consulted, args, result>>

\* the stage whose turn it is raises before it writes: read_csv does when
\* there is no input file, and the body of a stage may on what it read
ExtractRaise ==
    /\ pc = "extract"
    /\ k <= Len(Stages)
    /\ ShouldRun(args.redo, files, k)
    /\ pc' = "raised"
    /\ UNCHANGED <<df, input, prev, stay_ids, k, consulted, args, result,
                   files, ran>>

\* the stage whose turn it is is skipped
ExtractSkip ==
    /\ pc = "extract"
    /\ k <= Len(Stages)
    /\ ~ShouldRun(args.redo, files, k)
    /\ k' = k + 1
    /\ UNCHANGED <<pc, df, input, prev, stay_ids, consulted, args, result,
                   files, ran>>

ExtractReturn ==
    /\ pc = "extract"
    /\ k > Len(Stages)
    /\ pc' = "extracted"
    /\ UNCHANGED <<df, input, prev, stay_ids, k, consulted, args, result,
                   files, ran>>

NextExtract ==
    ExtractCall \/ ExtractRun \/ ExtractRaise \/ ExtractSkip \/ ExtractReturn

SpecExtract == Init /\ [][NextExtract]_vars

-----------------------------------------------------------------------------
(* Claims about impute_holes, stated on the table it saves *)

\* the index labels of a run of rows, in order
Idx(rows) == [i \in 1..Len(rows) |-> rows[i].idx]

\* the stay's creatinine is missing at 0-based index g >= 2 and at no
\* index from 2 up to g - 1
GapAt(c, g) ==
    /\ g >= 2
    /\ g < Len(c)
    /\ c[g + 1] = NaN
    /\ \A j \in 2..(g - 1) : c[j + 1] # NaN

\* every feature has a value in the first n rows
PrefixComplete(rows, n) ==
    \A f \in {"creatinine", "glucose"} : \E i \in 1..n : rows[i][f] # NaN

\* C4: with k the first index >= 2 at which the stay's creatinine is
\* missing, a stay of n >= 3 records is absent from the output when k = 2,
\* is kept with exactly its first k records when k > 2 and every feature has
\* a value in that prefix, and loses no record when there is no such index
\* (and every feature has a value); missing creatinine at index 0 or 1 plays
\* no part
C4_CreatinineGapRule ==
    pc = "imputed" =>
        \A s \in StayIdsOf(input) :
            LET rin == StayRows(input, s)
                rout == StayRows(df, s)
                c == Column(rin, "creatinine")
                n == Len(rin)
            IN  n >= 3 =>
                    /\ GapAt(c, 2) => rout = <<>>
                    /\ \A g \in 3..(n - 1) :
                          GapAt(c, g) /\ PrefixComplete(rin, g)
                              => Idx(rout) = Idx(SubSeq(rin, 1, g))
                    /\ (\A g \in 2..(n - 1) : ~GapAt(c, g)) /\ PrefixComplete(rin, n)
                              => Idx(rout) = Idx(rin)

\* a stay with creatinine missing at index 0 and first missing again at an
\* index k > 2 was saved with exactly its first k records
C4_Witness ==
    /\ pc = "imputed"
    /\ \E s \in StayIdsOf(df) :
          LET rin == StayRows(input, s)
              c == Column(rin, "creatinine")
          IN  /\ c[1] = NaN
              /\ \E g \in 3..(Len(rin) - 1) :
                    GapAt(c, g) /\ Len(StayRows(df, s)) = g

\* C5: no stay of the output has a missing value in any feature column (so
\* creatinine is there at index 0 and 1), and every stay of the output had,
\* for every feature, a value among the records it keeps: a stay with a
\* feature that has none is gone altogether
C5_NoHolesInOutput ==
    pc = "imputed" =>
        /\ \A i \in 1..Len(df) :
              df[i].creatinine # NaN /\ df[i].glucose # NaN
        /\ \A s \in StayIdsOf(df) :
              LET kept == {df[i].idx : i \in 1..Len(df)}
              IN  \A f \in {"creatinine", "glucose"} :
                    \E i \in 1..Len(input) :
                        /\ input[i].stay_id = s
                        /\ input[i].idx \in kept
                        /\ input[i][f] # NaN

\* a saved stay whose creatinine was missing at index 0 and at index 1 of
\* the input
C5_Witness ==
    /\ pc = "imputed"
    /\ \E s \in StayIdsOf(df) :
          LET rin == StayRows(input, s)
          IN  /\ Len(rin) >= 2
              /\ rin[1].creatinine = NaN
              /\ rin[2].creatinine = NaN

\* C6: every stay of the output has at least 3 records, and a stay with
\* fewer than 3 records in the input is not in the output
C6_AtLeastThreeRecords ==
    pc = "imputed" =>
        /\ \A s \in StayIdsOf(df) : Len(StayRows(df, s)) >= 3
        /\ \A s \in StayIdsOf(input) :
              Len(StayRows(input, s)) < 3 => s \notin StayIdsOf(df)

\* a stay cut down by the creatinine gap to exactly 3 records was saved
C6_Witness ==
    /\ pc = "imputed"
    /\ \E s \in StayIdsOf(df) :
          /\ Len(StayRows(input, s)) > 3
          /\ Len(StayRows(df, s)) = 3

\* what the claim says a filled entry is: the entry itself when it is there,
\* else the nearest earlier value of the stay, else the nearest later one
NearestFill(col, i) ==
    IF col[i] # NaN THEN col[i]
    ELSE IF \E j \in 1..(i - 1) : col[j] # NaN
         THEN col[CHOOSE j \in 1..(i - 1) :
                    col[j] # NaN /\ \A m \in (j + 1)..(i - 1) : col[m] = NaN]
         ELSE col[CHOOSE j \in (i + 1)..Len(col) :
                    col[j] # NaN /\ \A m \in (i + 1)..(j - 1) : col[m] = NaN]

-----------------------------------------------------------------------------
(* Claims about get_baseline and add_aki_labels *)

\* the age brackets of the specification; the last one has no upper end
Brackets ==
    <<[lo |-> 20, hi |-> <<24>>], [lo |-> 25, hi |-> <<29>>],
      [lo |-> 30, hi |-> <<39>>], [lo |-> 40, hi |-> <<54>>],
      [lo |-> 55, hi |-> <<>>]>>

InBracket(age, b) ==
    Brackets[b].lo <= age /\ (Brackets[b].hi = <<>> \/ age <= Brackets[b].hi[1])

\* the table of the specification, one row per bracket, in hundredths: black
\* male, black female, other male, other female
BaselineTable ==
    <<<<150, 120, 130, 100>>,
      <<150, 110, 120, 100>>,
      <<140, 110, 120, 90>>,
      <<130, 100, 110, 90>>,
      <<120, 90, 100, 80>>>>

TableBaseline(black, age, gender) ==
    BaselineTable[CHOOSE b \in 1..5 : InBracket(age, b)]
                 [IF black = 1 THEN (IF gender = 1 THEN 1 ELSE 2)
                  ELSE (IF gender = 1 THEN 3 ELSE 4)]

NextDayPositive(c, i, who) ==
    \/ c[i + 2] - c[i + 1] >= 30
    \/ 2 * c[i + 2] >= 3 * TableBaseline(who.black, who.age, who.gender)

\* C1: in every stay of the output the row at index 0 has aki = 0 and the
\* row at index i >= 1 has aki = 1 exactly when c[i+1] - c[i] >= 0.3 or
\* c[i+1] >= 1.5 * baseline, and aki = 0 otherwise
C1_NextDayLabels ==
    pc = "labeled" =>
        \A s \in StayIdsOf(df) :
            LET rin == StayRows(input, s)
                rout == StayRows(df, s)
                c == Column(rin, "creatinine")
            IN  /\ rout[1].aki = 0
                /\ \A i \in 1..(Len(rout) - 1) :
                      rout[i + 1].aki =
                          IF NextDayPositive(c, i, rin[1]) THEN 1 ELSE 0

\* a saved stay with, at indices >= 1, a label 1 that the difference alone
\* gives and a label 0
C1_Witness ==
    /\ pc = "labeled"
    /\ \E s \in StayIdsOf(df) :
          LET rin == StayRows(input, s)
              rout == StayRows(df, s)
              c == Column(rin, "creatinine")
              thr == 3 * TableBaseline(rin[1].black, rin[1].age, rin[1].gender)
          IN  /\ \E i \in 1..(Len(rout) - 1) :
                    rout[i + 1].aki = 1 /\ c[i + 2] - c[i + 1] >= 30
                                        /\ 2 * c[i + 2] < thr
              /\ \E i \in 1..(Len(rout) - 1) : rout[i + 1].aki = 0

\* the 48-hour conditions of the claim
PreWindowCondition(c, who) ==
    LET thr == 3 * TableBaseline(who.black, who.age, who.gender)
    IN  c[2] - c[1] >= 30 \/ 2 * c[1] >= thr \/ 2 * c[2] >= thr

\* C2: a stay with age >= 20 is absent from the output exactly when
\* c[1] - c[0] >= 0.3 or c[0] >= 1.5 * baseline or c[1] >= 1.5 * baseline,
\* whatever the values at indices >= 2
C2_PreWindowDrop ==
    pc = "labeled" =>
        \A s \in StayIdsOf(input) :
            LET rin == StayRows(input, s)
            IN  rin[1].age >= 20 =>
                    (s \notin StayIdsOf(df)
                        <=> PreWindowCondition(Column(rin, "creatinine"), rin[1]))

\* a stay of age >= 20 dropped only for its level at index 1, with no
\* trigger from index 2 on
C2_Witness ==
    /\ pc = "labeled"
    /\ \E s \in StayIdsOf(input) \ StayIdsOf(df) :
          LET rin == StayRows(input, s)
              c == Column(rin, "creatinine")
              thr == 3 * TableBaseline(rin[1].black, rin[1].age, rin[1].gender)
          IN  /\ rin[1].age >= 20
              /\ Len(c) >= 3
              /\ c[2] - c[1] < 30
              /\ 2 * c[1] < thr
              /\ 2 * c[2] >= thr
              /\ \A i \in 3..Len(c) : c[i] <= c[i - 1]

\* a row without its label
Unlabelled(r) == [r EXCEPT !.aki = NaN]

\* C3: a stay of n records that survives is saved as its first
\* min(n - 1, 8) records, in order and unchanged but for the label, each
\* with the label the next-day rule gives it; any other stay is gone
C3_TrailingRemovalAndCap ==
    pc = "labeled" =>
        \A s \in StayIdsOf(input) :
            LET rin == StayRows(input, s)
                rout == StayRows(df, s)
                n == Len(rin)
                m == IF n - 1 < 8 THEN n - 1 ELSE 8
            IN  \/ rout = <<>>
                \/ /\ Len(rout) = m
                   /\ \A i \in 1..m : Unlabelled(rout[i]) = rin[i]
                   /\ \A i \in 1..m :
                         rout[i].aki =
                             IF i > 1 /\ NextDayPositive(
                                    Column(rin, "creatinine"), i - 1, rin[1])
                             THEN 1 ELSE 0

\* a stay of 10 records saved as its records 0..7, the last of them
\* labelled 1
C3_Witness ==
    /\ pc = "labeled"
    /\ \E s \in StayIdsOf(df) :
          /\ Len(StayRows(input, s)) = 10
          /\ Idx(StayRows(df, s)) = Idx(SubSeq(StayRows(input, s), 1, 8))
          /\ StayRows(df, s)[8].aki = 1

\* C10: no stay of the output has age < 20, whatever its creatinine, and
\* get_baseline is never called for an age below 20
C10_UnderTwentyDropped ==
    /\ \A a \in consulted : a.age >= 20
    /\ pc = "labeled" =>
          \A s \in StayIdsOf(input) :
              StayRows(input, s)[1].age < 20 => s \notin StayIdsOf(df)

\* a stay of age 19 with a flat creatinine was visited by the loop, is gone,
\* and another stay's baseline was consulted
C10_Witness ==
    /\ pc = "labeled"
    /\ consulted # {}
    /\ \E s \in StayIdsOf(input) \ StayIdsOf(df) :
          LET rin == StayRows(input, s)
          IN  /\ rin[1].age = 19
              /\ \A i \in 1..Len(rin) : rin[i].creatinine = 100

-----------------------------------------------------------------------------
(* Claims about transform_outliers *)

\* C8 as amended: a pass keeps the row count and leaves every value of every
\* feature column within the 1st and 99th percentile of the column as it was
\* before the pass: a value above that 99th percentile is replaced by it, a
\* value below that 1st percentile is replaced by it, and any other value is
\* unchanged.  (The percentiles of the clipped column can lie strictly
\* inside these bounds, so a second pass can change the table again.)
C8_ClippedToPassBounds ==
    pc = "clip" /\ k > 1 =>
        /\ Len(df) = Len(prev)
        /\ \A f \in {"creatinine", "glucose"} :
              LET before == Column(prev, f)
                  p99 == Quantile(before, 99)
                  p01 == Quantile(before, 1)
              IN  \A i \in 1..Len(df) :
                    /\ p01 <= df[i][f] /\ df[i][f] <= p99
                    /\ before[i] > p99 => df[i][f] = p99
                    /\ before[i] < p01 => df[i][f] = p01
                    /\ p01 <= before[i] /\ before[i] <= p99 => df[i][f] = before[i]

\* the first pass has run and replaced a value at the top and a value at the
\* bottom of the creatinine column
C8_Witness ==
    /\ pc = "clip"
    /\ k = 2
    /\ \E i, j \in 1..Len(df) :
          /\ df[i].creatinine < prev[i].creatinine
          /\ df[j].creatinine > prev[j].creatinine

\* C8 as claimed: the second pass, run on the output of the first, changes
\* nothing
C8_AsClaimed ==
    pc = "clip" /\ k = 3 => df = prev

-----------------------------------------------------------------------------
(* Claims about has_aki *)

\* C11: a call with diff and no scr returns diff >= 0.3; a call with scr, no
\* diff and all of black, age and gender returns scr >= 1.5 * baseline; a
\* call with neither diff nor scr, or with scr, no diff and a demographic
\* missing, ends in the error and gives no verdict
C11_HasAkiCases ==
    pc = "has_aki_returned" =>
        LET diffOnly == args.diff # <<>> /\ args.scr = <<>>
            scrOnly == args.diff = <<>> /\ args.scr # <<>>
            neither == args.diff = <<>> /\ args.scr = <<>>
            whole == args.black # <<>> /\ args.age # <<>> /\ args.gender # <<>>
        IN  /\ diffOnly =>
                  (~result.raised /\ (result.value <=> args.diff[1] >= 30))
            /\ (scrOnly /\ whole) =>
                  (/\ ~result.raised
                   /\ result.value <=>
                         2 * args.scr[1] >= 3 * TableBaseline(
                             args.black[1], args.age[1], args.gender[1]))
            /\ neither => result.raised
            /\ (scrOnly /\ ~whole) => result.raised

\* a call with neither diff nor scr, though with every demographic, ended in
\* the error
C11_Witness ==
    /\ pc = "has_aki_returned"
    /\ args.diff = <<>> /\ args.scr = <<>>
    /\ args.black # <<>> /\ args.age # <<>> /\ args.gender # <<>>
    /\ result.raised

-----------------------------------------------------------------------------
(* Claims about the independence of the stays *)

\* what the stage saves of stay s when the table holds the rows of s alone
AloneImputed(s) == ImputeBody(StayRows(input, s), s)
AloneLabelled(s) == LabelBody(StayRows(input, s), s)

\* the saved rows of every stay are those the stage saves when it is run on
\* the rows of that stay alone
SameAsAlone ==
    /\ pc = "imputed" =>
          \A s \in StayIdsOf(input) : StayRows(df, s) = AloneImputed(s)
    /\ pc = "labeled" =>
          \A s \in StayIdsOf(input) : StayRows(df, s) = AloneLabelled(s)

\* an iteration of either loop leaves the rows of every stay other than the
\* visited one as they were
OthersUntouched ==
    (pc \in {"impute", "label"} /\ k <= Len(stay_ids) /\ k' = k + 1) =>
        \A s \in StayIdsOf(df) \ {stay_ids[k]} :
            StayRows(df', s) = StayRows(df, s)

\* C12: in impute_holes and add_aki_labels the output rows of a stay (kept
\* or dropped, which records remain, their filled values and labels) are
\* those of a run on a table that holds this stay alone, whatever the other
\* stay contains and whether it is visited before or after; and processing
\* one stay never removes or changes a row of another stay
C12_StaysIndependent == [](SameAsAlone) /\ [][OthersUntouched]_vars

\* impute_holes saved two stays of different values, each with a hole of
\* the input filled
C12_Witness ==
    /\ pc = "imputed"
    /\ StayIdsOf(df) = {1, 2}
    /\ \A s \in {1, 2} :
          /\ StayRows(df, s) # StayRows(input, s)
          /\ \A i \in 1..Len(df) :
                df[i].stay_id = s => df[i].creatinine = s /\ df[i].glucose = s

-----------------------------------------------------------------------------
(* Claims about extract_dataset *)

\* the stages run so far are among those whose turn has passed, in order,
\* and after a normal return the five output files exist
ExtractOrderAndFiles ==
    /\ pc \in {"extract", "extracted", "raised"} =>
          /\ \A i \in 1..Len(ran) : ran[i] < k
          /\ \A i, j \in 1..Len(ran) : i < j => ran[i] < ran[j]
    /\ pc = "extracted" =>
          \A n \in 1..Len(Outputs) : files[Outputs[n]] # <<>>

\* when the turn of stage k passes, the stage has run exactly if redo is
\* true or its output file was not there; a stage that ran has written its
\* output from the file the stage before it writes; a skipped stage has left
\* every file as it was
ExtractTurn ==
    (pc = "extract" /\ k' = k + 1) =>
        /\ ran' = Append(ran, k)
              <=> (args.redo \/ files[Outputs[k]] = <<>>)
        /\ ran' = Append(ran, k) =>
              /\ k > 1 => files'[Outputs[k]] =
                              Append(files[Outputs[k - 1]], Stages[k])
              /\ k = 1 => files'[Outputs[k]] =
                              Append(files[RawEvents], Stages[k])
              /\ \A name \in DOMAIN files \ {Outputs[k]} :
                    files'[name] = files[name]
        /\ ran' # Append(ran, k) => (ran' = ran /\ files' = files)

\* C13: extract_dataset considers the five stages in the fixed order, each
\* reading the output file of the stage before it; a stage is executed if
\* and only if redo is true or its own output file does not exist when its
\* turn comes, a skipped stage leaves its output file unchanged, and after a
\* normal return all five output files exist
C13_StagesInOrder == [](ExtractOrderAndFiles) /\ [][ExtractTurn]_vars

\* a call without redo returned after skipping the stages whose files were
\* there and running the two whose files were not: the file of the
\* demographics stage is derived from the stale file it read
C13_Witness ==
    /\ pc = "extracted"
    /\ ~args.redo
    /\ ran = <<3, 5>>
    /\ files["events_with_demographics.csv"] = <<"stale", "add_patient_info">>
    /\ files["events_with_labels.csv"] = <<"stale">>

=============================================================================
